---- MODULE Spec2Model ----
(***************************************************************************)
(* PanaragaPulse: the points-and-voucher redemption workflow.              *)
(*                                                                         *)
(* The store (the hosted database) holds the rewards, the users' points    *)
(* and the redemptions.  Each browser session of the rewards shop          *)
(* (RewardsShop.vue) holds a cached userProfile and a cached catalog, and  *)
(* redeems through the remote procedure redeem_reward.  The admin          *)
(* (RewardsManagement.vue) creates, edits and deletes rewards and writes   *)
(* redemption statuses straight to the table.                              *)
(***************************************************************************)
EXTENDS Integers, Sequences, FiniteSets, TLC

\* ------------------------------------------------------------------ bounds
MaxPoints == 2
MaxCost   == 2
MaxStock  == 2
MaxTime   == 2
\* The lifetime of a voucher, in ticks of the clock.
ExpiryOffset == 1
\* The points_reward of the event.
PointsReward == 1
\* The verifications of one participant that are followed.
MaxAwards == 2
\* The eco-action submissions that are followed.
MaxSubmissions == 3
\* The QrScanner objects alive at once, and the lookups under way at once.
MaxScanners == 2
MaxLookups  == 2

\* ------------------------------------------------------------ the entities
Users     == {"u1", "u2"}
Sessions  == {"s1", "s2", "s3"}
RewardIds == {"r1", "r2"}
Admin     == "admin"

\* The user a shop session is signed in as (props.userProfile.id).
UserOf(s) == IF s = "s3" THEN "u2" ELSE "u1"

\* null, and a number n, of a nullable column or form field.
Null    == << >>
Some(n) == << n >>
Val(v)  == v[1]

\* The five statuses of a redemption, and the four the admin's select offers.
Statuses      == {"pending", "claimed", "used", "expired", "cancelled"}
StatusOptions == {"pending", "claimed", "used", "cancelled"}

\* The outcomes of a redemption attempt, as shown in message.value.
Success             == "Success"
NotFound            == "NotFound"
InsufficientBalance == "InsufficientBalance"
OutOfStock          == "OutOfStock"
StorageUnavailable  == "StorageUnavailable"

VARIABLES
    rewards,      \* store: rewards table, id -> row
    points,       \* store: users.points
    redemptions,  \* store: redemptions table, in order of creation
    userProfile,  \* shop session: cached props.userProfile.points
    shopRewards,  \* shop session: cached rewards.value (the active rewards)
    pc,           \* shop session: "idle" | "rpc" | "reloading"
    target,       \* shop session: the reward redeemReward was last called with
    message,      \* shop session: message.value, as an outcome
    now,          \* the wall clock (new Date())
    eco_action_submissions, \* store: eco_action_submissions, rows <<qr_id, user_id>> in order
    event_participants,     \* store: event_participants, user_id -> row of the event
    scanUserProfile,  \* scanner (TouristScan.vue): userProfile.value.points, or Null
    userData,         \* ranger: userData.points of the verification under way, or Null
    users,            \* user management: users.value, user_id -> points as listed
    selectedUser,     \* user management: selectedUser.value of the edit modal, or Null
    modal,            \* rewards management: showModal, isEditing and formData
    adminMessage,     \* rewards management: message.value.text
    participants,     \* event participants page: participants.value, user_id -> attended
    scanSession,      \* scanner, step by step: a device's userProfile, step and error
    eventRow,         \* store: the row of the event open for joining
    joined,           \* store: the user_id of its event_participants rows, in order
    events,           \* event list of a user: the event as fetched
    myEvents,         \* event list of a user: the user's own row as fetched, or Null
    eventMessage,     \* event list of a user: message.value.text
    showCameraModal,  \* camera scanner: showCameraModal.value
    qrScanner,        \* camera scanner: qrScanner.value, a scanner or Null
    scanning,         \* camera scanner: scanning.value
    processingQR,     \* camera scanner: processingQR.value
    scanError,        \* camera scanner: error.value is set
    loading,          \* camera scanner: loading.value
    starting,         \* camera scanner: the startCamera calls waiting for the video element
    lookups,          \* camera scanner: the scanQRCode calls under way, by who called
    scanners          \* camera scanner: the QrScanner objects started and not destroyed

store   == << rewards, points, redemptions >>
session == << userProfile, shopRewards, pc, target, message >>
earning == << eco_action_submissions, event_participants, scanUserProfile, userData,
              users, selectedUser >>
management == << modal, adminMessage >>
eventList  == << eventRow, joined, events, myEvents, eventMessage >>
camera     == << showCameraModal, qrScanner, scanning, processingQR, scanError, loading,
                 starting, lookups, scanners >>
pages   == << management, participants, scanSession, eventList, camera >>
vars    == << rewards, points, redemptions, userProfile, shopRewards, pc, target, message, now,
              earning, pages >>

\* A row of the rewards table; row is "none" (id not issued yet), "present"
\* or "deleted" (ids are never issued twice).
NoRow(tag) == [row |-> tag, is_active |-> FALSE, points_cost |-> 1, stock_quantity |-> Null]
Row(active, cost, stock) ==
    [row |-> "present", is_active |-> active, points_cost |-> cost, stock_quantity |-> stock]

\* An entry of a session's cached catalog.
NotListed == [listed |-> FALSE, points_cost |-> 1, stock_quantity |-> Null]
Listed(rw) == [listed |-> TRUE, points_cost |-> rw.points_cost, stock_quantity |-> rw.stock_quantity]

\* A row of the redemptions table as the remote procedure inserts it.
NullId == "null"

\* The voucher code "<PREFIX>-<timestamp>-<random>" as the pair of its
\* timestamp and its random part.  CodesAt(t) are the random parts already
\* issued with timestamp t.
CodesAt(t) == {redemptions[i].voucher_code[2] :
                 i \in {j \in 1..Len(redemptions) : redemptions[j].voucher_code[1] = t}}

\* A code made of the timestamp alone: the random part is always the same.
VoucherCodeNoRandom(t) == << t, 1 >>

\* The random part is one no code of this timestamp carries yet (the least
\* such, all of them being alike).
VoucherCode(t) ==
    << t, CHOOSE n \in 1..(Len(redemptions) + 1) :
            /\ n \notin CodesAt(t)
            /\ \A m \in 1..(n - 1) : m \in CodesAt(t) >>

NewRedemption(u, r, cost) ==
    [user_id |-> u, reward_id |-> r, points_spent |-> cost,
     voucher_code |-> VoucherCode(now),
     created_at |-> now, expires_at |-> now + ExpiryOffset,
     status |-> "pending", claimed_by |-> NullId, claimed_at |-> Null]

\* The form of the rewards management modal as openCreateModal fills it.
EmptyForm ==
    [id |-> NullId, name |-> "", points_cost |-> 0, stock_quantity |-> Null, is_active |-> TRUE]

\* The devices the tourist scans with, and a device with nothing scanned.
Devices  == {"t1", "t2"}
IdleScan == [userProfile |-> Null, step |-> "idle", error |-> ""]

\* ------------------------------------------------------------------- Init
\* The pages besides the shop have just been loaded, nothing is under way.
OtherPagesLoaded ==
    /\ eco_action_submissions = << >>
    /\ event_participants = [u \in Users |-> [attended |-> FALSE, points_awarded |-> FALSE]]
    /\ scanUserProfile = Null
    /\ userData = Null
    /\ users = points
    /\ selectedUser = Null
    /\ modal = [showModal |-> FALSE, isEditing |-> FALSE, formData |-> EmptyForm]
    /\ adminMessage = ""
    /\ participants = [u \in Users |-> FALSE]
    /\ scanSession = [t \in Devices |-> IdleScan]
    /\ eventRow = [status |-> "upcoming", event_date |-> 1, max_participants |-> Some(1)]
    /\ joined = << >>
    /\ events = [u \in Users |-> [status |-> "upcoming", event_date |-> 1, participants |-> << >>]]
    /\ myEvents = [u \in Users |-> Null]
    /\ eventMessage = [u \in Users |-> ""]
    /\ showCameraModal = FALSE
    /\ qrScanner = Null
    /\ scanning = FALSE
    /\ processingQR = FALSE
    /\ scanError = FALSE
    /\ loading = FALSE
    /\ starting = 0
    /\ lookups = [detected |-> 0, manual |-> 0]
    /\ scanners = {}

\* Every session has just loaded its page: its caches are the store's rows.
Loaded ==
    /\ redemptions = << >>
    /\ userProfile = [s \in Sessions |-> points[UserOf(s)]]
    /\ shopRewards = [s \in Sessions |->
          [r \in RewardIds |->
              IF rewards[r].row = "present" /\ rewards[r].is_active
              THEN Listed(rewards[r]) ELSE NotListed]]
    /\ pc = [s \in Sessions |-> "idle"]
    /\ target = [s \in Sessions |-> "r1"]
    /\ message = [s \in Sessions |-> ""]
    /\ now = 0
    /\ OtherPagesLoaded

\* The admin has not created the catalog yet (one reward was created and
\* deleted before); every user holds MaxPoints.
Init ==
    /\ rewards = [r \in RewardIds |-> IF r = "r1" THEN NoRow("none") ELSE NoRow("deleted")]
    /\ points = [u \in Users |-> MaxPoints]
    /\ Loaded

\* A stocked catalog: r1 with MaxStock pieces at cost 1, r2 unlimited at
\* cost MaxCost; every user holds MaxPoints.
InitRace ==
    /\ rewards = [r \in RewardIds |->
          IF r = "r1" THEN Row(TRUE, 1, Some(MaxStock)) ELSE Row(TRUE, MaxCost, Null)]
    /\ points = [u \in Users |-> MaxPoints]
    /\ Loaded

\* Two vouchers of user u1 on reward r1, of any status and expiry.
VoucherRows ==
    {[user_id |-> "u1", reward_id |-> "r1", points_spent |-> 1, voucher_code |-> << 0, 1 >>,
      created_at |-> 0, expires_at |-> e, status |-> st, claimed_by |-> NullId,
      claimed_at |-> Null] : e \in 0..MaxTime, st \in Statuses}

InitVouchers ==
    /\ rewards = [r \in RewardIds |->
          IF r = "r1" THEN Row(TRUE, 1, Null) ELSE NoRow("deleted")]
    /\ points = [u \in Users |-> MaxPoints]
    /\ \E v, w \in VoucherRows :
          redemptions = << v, [w EXCEPT !.voucher_code = << 0, 2 >>] >>
    /\ userProfile = [s \in Sessions |-> points[UserOf(s)]]
    /\ shopRewards = [s \in Sessions |-> [r \in RewardIds |->
                         IF r = "r1" THEN Listed(rewards[r]) ELSE NotListed]]
    /\ pc = [s \in Sessions |-> "idle"]
    /\ target = [s \in Sessions |-> "r1"]
    /\ message = [s \in Sessions |-> ""]
    /\ now = 0
    /\ OtherPagesLoaded

\* One reward at cost 1 with two pieces in stock.
InitStatus ==
    /\ rewards = [r \in RewardIds |->
          IF r = "r1" THEN Row(TRUE, 1, Some(1 + 1)) ELSE NoRow("deleted")]
    /\ points = [u \in Users |-> MaxPoints]
    /\ Loaded

\* ------------------------------------------------------- the rewards shop
\* fetchRewards: select * from rewards where is_active.
ActiveRewards ==
    [r \in RewardIds |->
        IF rewards[r].row = "present" /\ rewards[r].is_active
        THEN Listed(rewards[r]) ELSE NotListed]

\* loadData, run by onMounted each time the shop view is entered.
loadData(s) ==
    /\ pc[s] = "idle"
    /\ shopRewards' = [shopRewards EXCEPT ![s] = ActiveRewards]
    /\ message' = [message EXCEPT ![s] = ""]
    /\ UNCHANGED << store, userProfile, pc, target, now, earning, pages >>

\* A page load: App.vue's fetchUserProfile, then the shop's loadData.  It
\* is also how redeemReward ends after a success (loadData, then
\* window.location.reload()).
PageReload(s) ==
    /\ pc[s] \in {"idle", "reloading"}
    /\ userProfile' = [userProfile EXCEPT ![s] = points[UserOf(s)]]
    /\ shopRewards' = [shopRewards EXCEPT ![s] = ActiveRewards]
    /\ message' = [message EXCEPT ![s] = ""]
    /\ pc' = [pc EXCEPT ![s] = "idle"]
    /\ UNCHANGED << store, target, now, earning, pages >>

canAfford(s, cost) == userProfile[s] >= cost

RedeemButtonIgnoresStock(s, r) ==
    /\ shopRewards[s][r].listed
    /\ canAfford(s, shopRewards[s][r].points_cost)
    /\ pc[s] = "idle"

RedeemButtonIgnoresBalance(s, r) ==
    /\ shopRewards[s][r].listed
    /\ shopRewards[s][r].stock_quantity # Some(0)
    /\ pc[s] = "idle"

RedeemButtonAlways(s, r) ==
    /\ shopRewards[s][r].listed
    /\ pc[s] = "idle"

\* The template renders the "Redeem Now" button of a listed reward only
\* when its cached stock is not 0 and the cached balance covers its cost;
\* the button is disabled while a redemption is running.
RedeemButtonEnabled(s, r) ==
    /\ shopRewards[s][r].listed
    /\ shopRewards[s][r].stock_quantity # Some(0)
    /\ canAfford(s, shopRewards[s][r].points_cost)
    /\ pc[s] = "idle"

\* redeemReward deducting the cached cost from the cached balance itself,
\* in the store, before the remote call.
redeemRewardOptimistic(s, r) ==
    /\ RedeemButtonEnabled(s, r)
    /\ pc' = [pc EXCEPT ![s] = "rpc"]
    /\ message' = [message EXCEPT ![s] = ""]
    /\ target' = [target EXCEPT ![s] = r]
    /\ points' = [points EXCEPT ![UserOf(s)] = userProfile[s] - shopRewards[s][r].points_cost]
    /\ UNCHANGED << rewards, redemptions, userProfile, shopRewards, now, earning, pages >>

\* redeemReward up to the remote call: the two checks on the cached reward
\* and the confirm() dialog.
redeemReward(s, r) ==
    /\ RedeemButtonEnabled(s, r)
    /\ LET reward == shopRewards[s][r] IN
       IF ~canAfford(s, reward.points_cost)
       THEN /\ message' = [message EXCEPT ![s] = InsufficientBalance]
            /\ target' = [target EXCEPT ![s] = r]
            /\ UNCHANGED << store, userProfile, shopRewards, pc, now, earning, pages >>
       ELSE IF reward.stock_quantity # Null /\ Val(reward.stock_quantity) <= 0
       THEN /\ message' = [message EXCEPT ![s] = OutOfStock]
            /\ target' = [target EXCEPT ![s] = r]
            /\ UNCHANGED << store, userProfile, shopRewards, pc, now, earning, pages >>
       ELSE \E confirmed \in BOOLEAN :
              IF ~confirmed
              THEN UNCHANGED vars
              ELSE /\ pc' = [pc EXCEPT ![s] = "rpc"]
                   /\ message' = [message EXCEPT ![s] = ""]
                   /\ target' = [target EXCEPT ![s] = r]
                   /\ UNCHANGED << store, userProfile, shopRewards, now, earning, pages >>

\* ------------------------------------------------------ the user's vouchers
\* isExpired comparing with <= : a voucher expires at expires_at already.
isExpiredAtDeadline(expiresAt) == expiresAt <= now

\* isExpired(expiresAt): new Date(expiresAt) < new Date().
isExpired(expiresAt) == expiresAt < now

\* activeVouchers and usedExpiredVouchers of user u, as indices of the
\* redemptions table.
MyRedemptions(u) == {i \in 1..Len(redemptions) : redemptions[i].user_id = u}
activeVouchers(u) ==
    {i \in MyRedemptions(u) :
       /\ redemptions[i].status \in {"pending", "claimed"}
       /\ ~isExpired(redemptions[i].expires_at)}

\* usedExpiredVouchers filtering on the stored status alone.
usedExpiredVouchersByStatus(u) ==
    {i \in MyRedemptions(u) : redemptions[i].status \in {"used", "expired", "cancelled"}}

usedExpiredVouchers(u) ==
    {i \in MyRedemptions(u) :
       \/ redemptions[i].status \in {"used", "expired", "cancelled"}
       \/ isExpired(redemptions[i].expires_at)}

\* The status badge of a voucher in the active list and in the history.
ActiveBadge(i) == redemptions[i].status
HistoryBadge(i) ==
    IF isExpired(redemptions[i].expires_at) THEN "expired" ELSE redemptions[i].status

\* ------------------------------------------- the remote procedure (store)
\* redeem_reward(p_user_id, p_reward_id): the three preconditions in order.
RedeemOutcome(u, r) ==
    IF rewards[r].row # "present" \/ ~rewards[r].is_active THEN NotFound
    ELSE IF points[u] < rewards[r].points_cost THEN InsufficientBalance
    ELSE IF rewards[r].stock_quantity # Null /\ Val(rewards[r].stock_quantity) <= 0
         THEN OutOfStock
    ELSE Success

\* The transaction: one atomic step of the store.
redeem_reward(u, r) ==
    IF RedeemOutcome(u, r) = Success
    THEN /\ rewards' = [rewards EXCEPT ![r].stock_quantity =
                           IF @ = Null THEN Null ELSE Some(Val(@) - 1)]
         /\ points' = [points EXCEPT ![u] = @ - rewards[r].points_cost]
         /\ redemptions' = Append(redemptions, NewRedemption(u, r, rewards[r].points_cost))
    ELSE UNCHANGED store

\* redeemReward writing, after a success, the stock it computes from its
\* cached reward.
RedeemReturnWritesStock(s) ==
    /\ pc[s] = "rpc"
    /\ LET u == UserOf(s)
           r == target[s]
           cached == shopRewards[s][r].stock_quantity
       IN  IF RedeemOutcome(u, r) = Success
           THEN /\ rewards' = [rewards EXCEPT ![r].stock_quantity =
                                  IF cached = Null THEN Null ELSE Some(Val(cached) - 1)]
                /\ points' = [points EXCEPT ![u] = @ - rewards[r].points_cost]
                /\ redemptions' =
                      Append(redemptions, NewRedemption(u, r, rewards[r].points_cost))
                /\ message' = [message EXCEPT ![s] = Success]
                /\ pc' = [pc EXCEPT ![s] = "reloading"]
                /\ UNCHANGED << userProfile, shopRewards, target, now, earning, pages >>
           ELSE /\ message' = [message EXCEPT ![s] = RedeemOutcome(u, r)]
                /\ pc' = [pc EXCEPT ![s] = "idle"]
                /\ UNCHANGED << store, userProfile, shopRewards, target, now, earning, pages >>

\* redeemReward writing, after a success, the balance it computes from
\* its cached profile and cached reward.
RedeemReturnWritesPoints(s) ==
    /\ pc[s] = "rpc"
    /\ LET u == UserOf(s)
           r == target[s]
       IN  IF RedeemOutcome(u, r) = Success
           THEN /\ rewards' = [rewards EXCEPT ![r].stock_quantity =
                                  IF @ = Null THEN Null ELSE Some(Val(@) - 1)]
                /\ points' = [points EXCEPT ![u] =
                                  userProfile[s] - shopRewards[s][r].points_cost]
                /\ redemptions' =
                      Append(redemptions, NewRedemption(u, r, rewards[r].points_cost))
                /\ message' = [message EXCEPT ![s] = Success]
                /\ pc' = [pc EXCEPT ![s] = "reloading"]
                /\ UNCHANGED << userProfile, shopRewards, target, now, earning, pages >>
           ELSE /\ message' = [message EXCEPT ![s] = RedeemOutcome(u, r)]
                /\ pc' = [pc EXCEPT ![s] = "idle"]
                /\ UNCHANGED << store, userProfile, shopRewards, target, now, earning, pages >>

\* redeemReward passing the price its page shows, which the redemption
\* then records as points_spent.
RedeemReturnSendsCachedCost(s) ==
    /\ pc[s] = "rpc"
    /\ LET u == UserOf(s)
           r == target[s]
       IN  IF RedeemOutcome(u, r) = Success
           THEN /\ rewards' = [rewards EXCEPT ![r].stock_quantity =
                                  IF @ = Null THEN Null ELSE Some(Val(@) - 1)]
                /\ points' = [points EXCEPT ![u] = @ - rewards[r].points_cost]
                /\ redemptions' =
                      Append(redemptions, NewRedemption(u, r, shopRewards[s][r].points_cost))
                /\ message' = [message EXCEPT ![s] = Success]
                /\ pc' = [pc EXCEPT ![s] = "reloading"]
                /\ UNCHANGED << userProfile, shopRewards, target, now, earning, pages >>
           ELSE /\ message' = [message EXCEPT ![s] = RedeemOutcome(u, r)]
                /\ pc' = [pc EXCEPT ![s] = "idle"]
                /\ UNCHANGED << store, userProfile, shopRewards, target, now, earning, pages >>

\* redeemReward from the remote call on: the call is applied and its
\* result (or the error thrown) is shown.
RedeemReturn(s) ==
    /\ pc[s] = "rpc"
    /\ \E ok \in BOOLEAN :
         IF ~ok
         THEN /\ message' = [message EXCEPT ![s] = StorageUnavailable]
              /\ pc' = [pc EXCEPT ![s] = "idle"]
              /\ UNCHANGED << store, userProfile, shopRewards, target, now, earning, pages >>
         ELSE /\ redeem_reward(UserOf(s), target[s])
              /\ message' = [message EXCEPT ![s] = RedeemOutcome(UserOf(s), target[s])]
              /\ pc' = [pc EXCEPT ![s] =
                           IF RedeemOutcome(UserOf(s), target[s]) = Success
                           THEN "reloading" ELSE "idle"]
              /\ UNCHANGED << userProfile, shopRewards, target, now, earning, pages >>

\* ------------------------------------------------- the admin's management
\* rewardData.stock_quantity: formData.stock_quantity || null.
StockOrNull(v) == IF v = Null \/ Val(v) = 0 THEN Null ELSE v

\* What the form's number inputs can submit: a cost of at least 1
\* (required, min="1"; the cheapest and the dearest are tried), a stock that
\* is empty or at least 0 (min="0").
FormCosts  == {1, MaxCost}
FormStocksNoMin == {Null} \cup {Some(n) : n \in -1..MaxStock}
FormStocks == {Null} \cup {Some(n) : n \in 0..MaxStock}

\* The forms the admin submits: every filled form, and one whose name or
\* description is blank once trimmed.
Forms ==
    [blank : {FALSE}, points_cost : FormCosts, stock_quantity : FormStocks,
     is_active : BOOLEAN]
    \cup {[blank |-> TRUE, points_cost |-> 1, stock_quantity |-> Null, is_active |-> TRUE]}

\* The id the store gives the next reward created.
FreshIds == {r \in RewardIds : rewards[r].row = "none"}
NextId   == CHOOSE r \in FreshIds : \A q \in FreshIds : r = q \/ r = "r1"

\* saveReward writing the form without looking at it.
saveRewardUnvalidated(editing, formData) ==
    /\ editing # Null => rewards[Val(editing)].row = "present"
    /\ editing = Null => FreshIds # {}
    /\ LET rewardData == Row(formData.is_active, formData.points_cost,
                             StockOrNull(formData.stock_quantity)) IN
       rewards' = [rewards EXCEPT
                     ![IF editing = Null THEN NextId ELSE Val(editing)] = rewardData]
    /\ UNCHANGED << points, redemptions, session, now, earning, participants, scanSession,
                    eventList, camera >>

\* saveReward with the form as submitted; editing is Null for a creation
\* (isEditing false) and the reward's id for an update.  What it does to the
\* modal and to the page's message is said where the form is submitted.
saveReward(editing, formData) ==
    /\ editing # Null => rewards[Val(editing)].row = "present"
    /\ editing = Null => FreshIds # {}
    /\ IF formData.blank \/ formData.points_cost <= 0
       THEN UNCHANGED rewards
       ELSE LET rewardData == Row(formData.is_active, formData.points_cost,
                                  StockOrNull(formData.stock_quantity)) IN
            rewards' = [rewards EXCEPT
                          ![IF editing = Null THEN NextId ELSE Val(editing)] = rewardData]
    /\ UNCHANGED << points, redemptions, session, now, earning, participants, scanSession,
                    eventList, camera >>

\* deleteReward, confirmed.
deleteReward(r) ==
    /\ rewards[r].row = "present"
    /\ rewards' = [rewards EXCEPT ![r] = NoRow("deleted")]
    /\ UNCHANGED << points, redemptions, session, now, earning, pages >>

\* The points column showing the price of the joined reward row.
PointsShownFromReward(i) == rewards[redemptions[i].reward_id].points_cost

\* The points column of the redemptions table, and "Points Spent" of the
\* user's vouchers: the redemption's own points_spent.
PointsShown(i) == redemptions[i].points_spent

\* The status column of the admin's redemptions table, and the statuses
\* its select offers for the row.
AdminStatusShown(i) == redemptions[i].status
AdminStatusOffered(i) == StatusOptions

\* updateRedemptionStatus stamping claimed_at on every status it writes.
updateRedemptionStatusStampsAlways(i, newStatus) ==
    /\ i \in 1..Len(redemptions)
    /\ redemptions' = [redemptions EXCEPT ![i] =
          IF newStatus = "claimed"
          THEN [@ EXCEPT !.status = newStatus, !.claimed_at = Some(now),
                         !.claimed_by = Admin]
          ELSE [@ EXCEPT !.status = newStatus, !.claimed_at = Some(now)]]
    /\ UNCHANGED << rewards, points, session, now, earning, pages >>

\* updateRedemptionStatus giving the points and the piece back when a
\* voucher is cancelled.
updateRedemptionStatusRefunds(i, newStatus) ==
    /\ i \in 1..Len(redemptions)
    /\ redemptions' = [redemptions EXCEPT ![i] =
          IF newStatus = "claimed"
          THEN [@ EXCEPT !.status = newStatus, !.claimed_at = Some(now),
                         !.claimed_by = Admin]
          ELSE [@ EXCEPT !.status = newStatus]]
    /\ IF newStatus = "cancelled"
       THEN /\ points' = [points EXCEPT ![redemptions[i].user_id] =
                             @ + redemptions[i].points_spent]
            /\ rewards' = [rewards EXCEPT ![redemptions[i].reward_id].stock_quantity =
                             IF @ = Null THEN Null ELSE Some(Val(@) + 1)]
       ELSE UNCHANGED << rewards, points >>
    /\ UNCHANGED << session, now, earning, pages >>

\* updateRedemptionStatus: the status chosen in the select is written as is.
updateRedemptionStatus(i, newStatus) ==
    /\ i \in 1..Len(redemptions)
    /\ redemptions' = [redemptions EXCEPT ![i] =
          IF newStatus = "claimed"
          THEN [@ EXCEPT !.status = newStatus, !.claimed_at = Some(now),
                         !.claimed_by = Admin]
          ELSE [@ EXCEPT !.status = newStatus]]
    /\ UNCHANGED << rewards, points, session, now, earning, pages >>

\* Time passes.
Tick ==
    /\ now < MaxTime
    /\ now' = now + 1
    /\ UNCHANGED << store, session, earning, pages >>

\* ------------------------------------------------- the QR scanner (tourist)
\* An eco-action earns 10 points; QRs are the QR locations.
EcoActionPoints == 10
QRs == {"q1"}

\* The rows of user u for location q, and the test submitEcoAction makes of
\* them: select ... .single() yields a row only when there is exactly one.
Submissions(q, u) ==
    {i \in 1..Len(eco_action_submissions) : eco_action_submissions[i] = << q, u >>}
existingSubmission(q, u) == Cardinality(Submissions(q, u)) = 1

\* scanQRCode, the code and its coral info found: fetchUserProfile loads the
\* scanner's own copy of the user's row (it is loaded again two seconds
\* after a submission).
scanQRCode(u) ==
    /\ scanUserProfile' = Some(points[u])
    /\ UNCHANGED << store, session, now, eco_action_submissions, event_participants,
                    userData, users, selectedUser, pages >>

\* submitEcoAction, photo chosen and uploaded: refused when the user has a
\* submission for this location; else the submission is inserted and the
\* balance is written as (userProfile.value?.points || 0) + 10.
submitEcoAction(u, q) ==
    /\ scanUserProfile # Null
    /\ IF existingSubmission(q, u)
       THEN UNCHANGED vars
       ELSE /\ eco_action_submissions' = Append(eco_action_submissions, << q, u >>)
            /\ points' = [points EXCEPT ![u] = Val(scanUserProfile) + EcoActionPoints]
            /\ UNCHANGED << rewards, redemptions, session, now, event_participants,
                            scanUserProfile, userData, users, selectedUser, pages >>

\* --------------------------- the QR scanner, request by request (tourist)
\* The user's devices t run TouristScan.vue at once, each signed in as u1.
\* The texts of error.value.
PhotoRequired    == "Please upload a photo as proof of your eco-action"
AlreadyCompleted == "You have already completed the eco-action for this location!"
UploadFailed     == "Failed to upload photo. Please try again."

notScan == << store, session, now, event_participants, scanUserProfile, userData, users,
              selectedUser, management, participants, eventList, camera >>

\* fetchUserProfile on device t, at the end of scanQRCode and two seconds
\* after a submission.
fetchUserProfile(t) ==
    /\ scanSession[t].step = "idle"
    /\ scanSession' = [scanSession EXCEPT ![t].userProfile = Some(points["u1"])]
    /\ UNCHANGED << eco_action_submissions, notScan >>

\* submitEcoAction up to its test of the stored submissions; photo tells
\* whether a photo was chosen.
checkSubmission(t, q, photo) ==
    /\ scanSession[t].step = "idle"
    /\ scanSession[t].userProfile # Null
    /\ scanSession' = [scanSession EXCEPT
          ![t].error = IF ~photo THEN PhotoRequired
                       ELSE IF existingSubmission(q, "u1") THEN AlreadyCompleted ELSE "",
          ![t].step  = IF photo /\ ~existingSubmission(q, "u1") THEN "checked" ELSE "idle"]
    /\ UNCHANGED << eco_action_submissions, notScan >>

\* uploadActionPhoto: it yields the photo's address, or null when the
\* upload fails, and then submitEcoAction stops.
uploadActionPhoto(t, uploaded) ==
    /\ scanSession[t].step = "checked"
    /\ scanSession' = [scanSession EXCEPT
          ![t].error = IF uploaded THEN "" ELSE UploadFailed,
          ![t].step  = IF uploaded THEN "uploaded" ELSE "idle"]
    /\ UNCHANGED << eco_action_submissions, notScan >>

\* The submission is inserted.
insertSubmission(t, q) ==
    /\ scanSession[t].step = "uploaded"
    /\ eco_action_submissions' = Append(eco_action_submissions, << q, "u1" >>)
    /\ scanSession' = [scanSession EXCEPT ![t].step = "inserted"]
    /\ UNCHANGED notScan

\* The balance is written as (userProfile.value?.points || 0) + 10.
updateUserPoints(t) ==
    /\ scanSession[t].step = "inserted"
    /\ points' = [points EXCEPT !["u1"] = Val(scanSession[t].userProfile) + EcoActionPoints]
    /\ scanSession' = [scanSession EXCEPT ![t].step = "idle"]
    /\ UNCHANGED << rewards, redemptions, session, now, eco_action_submissions,
                    event_participants, scanUserProfile, userData, users, selectedUser,
                    management, participants, eventList, camera >>

\* ------------------------------------------ the camera scanner (tourist)
notCamera == << store, session, now, eco_action_submissions, event_participants, userData,
                users, selectedUser, management, participants, scanSession, eventList >>

\* startCamera up to its wait for the video element; the button is on the
\* page under the modal.
startCamera ==
    /\ ~showCameraModal
    /\ starting + Cardinality(scanners) < MaxScanners
    /\ showCameraModal' = TRUE
    /\ scanning' = TRUE
    /\ starting' = starting + 1
    /\ UNCHANGED << qrScanner, processingQR, scanError, loading, lookups, scanners,
                    scanUserProfile, notCamera >>

\* startCamera after the wait: without the video element (the modal was
\* closed) it gives up; else it makes a QrScanner, keeps it in qrScanner
\* and starts it; started tells whether the camera could be opened.
createScanner(started) ==
    /\ starting > 0
    /\ starting' = starting - 1
    /\ IF ~showCameraModal
       THEN UNCHANGED << qrScanner, scanning, scanners >>
       ELSE LET k == CHOOSE n \in 1..(MaxScanners + 1) :
                        /\ n \notin scanners \cup {qrScanner[i] : i \in 1..Len(qrScanner)}
                        /\ \A m \in 1..(n - 1) :
                              m \in scanners \cup {qrScanner[i] : i \in 1..Len(qrScanner)} IN
            /\ qrScanner' = Some(k)
            /\ scanners' = IF started THEN scanners \cup {k} ELSE scanners
            /\ scanning' = IF started THEN scanning ELSE FALSE
    /\ UNCHANGED << showCameraModal, processingQR, scanError, loading, lookups,
                    scanUserProfile, notCamera >>

\* stopCamera: the scanner kept in qrScanner is stopped and destroyed, the
\* modal is closed.
stopCameraNow ==
    /\ scanners' = IF qrScanner = Null THEN scanners ELSE scanners \ {Val(qrScanner)}
    /\ qrScanner' = Null
    /\ showCameraModal' = FALSE
    /\ scanning' = FALSE
    /\ processingQR' = FALSE

\* stopCamera from the modal: the cross, Cancel, a click beside the box.
stopCamera ==
    /\ showCameraModal
    /\ stopCameraNow
    /\ UNCHANGED << scanError, loading, starting, lookups, scanUserProfile, notCamera >>

\* The callback of scanner k on a code it detects, up to the lookup
\* scanQRCode sends.
onDecode(k) ==
    /\ k \in scanners
    /\ lookups.detected < MaxLookups
    /\ IF processingQR
       THEN UNCHANGED << processingQR, scanning, scanError, loading, lookups >>
       ELSE /\ processingQR' = TRUE
            /\ scanning' = FALSE
            /\ scanError' = FALSE
            /\ loading' = TRUE
            /\ lookups' = [lookups EXCEPT !.detected = @ + 1]
    /\ UNCHANGED << showCameraModal, qrScanner, starting, scanners, scanUserProfile, notCamera >>

\* The callback from the answer of the lookup on: scanQRCode sets error or
\* loads the profile and clears loading and processingQR; then the camera
\* is stopped when error is empty, else scanning goes on.
decodeReturns(found) ==
    /\ lookups.detected > 0
    /\ lookups' = [lookups EXCEPT !.detected = @ - 1]
    /\ scanError' = (IF found THEN scanError ELSE TRUE)
    /\ scanUserProfile' = IF found THEN Some(points["u1"]) ELSE scanUserProfile
    /\ loading' = FALSE
    /\ IF ~scanError'
       THEN stopCameraNow
       ELSE /\ processingQR' = FALSE
            /\ scanning' = TRUE
            /\ UNCHANGED << showCameraModal, qrScanner, scanners >>
    /\ UNCHANGED << starting, notCamera >>

\* Go (or Enter) on the code typed into the modal, up to the lookup.
manualEntry ==
    /\ showCameraModal /\ ~loading /\ ~processingQR
    /\ lookups.manual < 1
    /\ scanError' = FALSE
    /\ loading' = TRUE
    /\ lookups' = [lookups EXCEPT !.manual = @ + 1]
    /\ UNCHANGED << showCameraModal, qrScanner, scanning, processingQR, starting, scanners,
                    scanUserProfile, notCamera >>

\* Its answer: scanQRCode ends as above, then stopCamera in any case.
manualReturns(found) ==
    /\ lookups.manual > 0
    /\ lookups' = [lookups EXCEPT !.manual = @ - 1]
    /\ scanError' = (IF found THEN scanError ELSE TRUE)
    /\ scanUserProfile' = IF found THEN Some(points["u1"]) ELSE scanUserProfile
    /\ loading' = FALSE
    /\ stopCameraNow
    /\ UNCHANGED << starting, notCamera >>

\* ------------------------------------------- event attendance (the ranger)
\* verifyAttendance up to its writes: the user's row is read by QR code
\* (userData), then the participant row; an attended participant is
\* refused ('has already been verified').
verifyAttendance(u) ==
    /\ userData = Null
    /\ IF event_participants[u].attended
       THEN UNCHANGED vars
       ELSE /\ userData' = Some([id |-> u, points |-> points[u]])
            /\ UNCHANGED << store, session, now, eco_action_submissions, event_participants,
                            scanUserProfile, users, selectedUser, pages >>

\* verifyAttendance from its writes on: the participant is marked attended
\* with points_awarded, and the balance is written as
\* (userData.points || 0) + selectedEvent.points_reward.
awardPoints ==
    /\ userData # Null
    /\ LET u == Val(userData).id IN
       /\ event_participants' = [event_participants EXCEPT
                                   ![u] = [attended |-> TRUE, points_awarded |-> TRUE]]
       /\ points' = [points EXCEPT ![u] = Val(userData).points + PointsReward]
    /\ userData' = Null
    /\ UNCHANGED << rewards, redemptions, session, now, eco_action_submissions,
                    scanUserProfile, users, selectedUser, pages >>

\* verifyAttendance from its writes on, the points update failing: the
\* participant is already marked, the error is thrown and shown.
awardPointsFails ==
    /\ userData # Null
    /\ event_participants' = [event_participants EXCEPT
                                ![Val(userData).id] = [attended |-> TRUE, points_awarded |-> TRUE]]
    /\ userData' = Null
    /\ UNCHANGED << store, session, now, eco_action_submissions,
                    scanUserProfile, users, selectedUser, pages >>

\* ------------------------------------- the event's participants (admin)
\* fetchEventParticipants: the page lists the participants as stored.
fetchEventParticipants ==
    /\ participants' = [u \in Users |-> event_participants[u].attended]
    /\ UNCHANGED << store, session, now, earning, management, scanSession, eventList, camera >>

\* toggleAttendance(participant.id, participant.attended) on a listed row:
\* attended is written as the opposite of the listed value, in the table
\* and in the list.
toggleAttendance(u) ==
    /\ event_participants' = [event_participants EXCEPT ![u].attended = ~participants[u]]
    /\ participants' = [participants EXCEPT ![u] = ~participants[u]]
    /\ UNCHANGED << store, session, now, eco_action_submissions, scanUserProfile, userData,
                    users, selectedUser, management, scanSession, eventList, camera >>

\* ------------------------------------------------ user management (admin)
\* handleEditUser: the edit modal opens on a copy of the listed row.
handleEditUser(u) ==
    /\ selectedUser = Null
    /\ selectedUser' = Some([id |-> u, points |-> users[u]])
    /\ UNCHANGED << store, session, now, eco_action_submissions, event_participants,
                    scanUserProfile, userData, users, pages >>

\* The admin types v into the modal's Points field.
PointsInput(v) ==
    /\ selectedUser # Null
    /\ selectedUser' = Some([Val(selectedUser) EXCEPT !.points = v])
    /\ UNCHANGED << store, session, now, eco_action_submissions, event_participants,
                    scanUserProfile, userData, users, pages >>

\* handleUpdateUser: name, email, role and points of the modal are written
\* to the user's row and to the listed row.
handleUpdateUser ==
    /\ selectedUser # Null
    /\ points' = [points EXCEPT ![Val(selectedUser).id] = Val(selectedUser).points]
    /\ users' = [users EXCEPT ![Val(selectedUser).id] = Val(selectedUser).points]
    /\ selectedUser' = Null
    /\ UNCHANGED << rewards, redemptions, session, now, eco_action_submissions,
                    event_participants, scanUserProfile, userData, pages >>

\* saveProfile of session s: a blank name is refused; else the name is
\* written to the user's row and the page reloads.
saveProfile(s, blank) ==
    /\ pc[s] = "idle"
    /\ IF blank
       THEN UNCHANGED vars
       ELSE /\ pc' = [pc EXCEPT ![s] = "reloading"]
            /\ UNCHANGED << store, userProfile, shopRewards, target, message, now, earning, pages >>

\* ------------------------------------------------ the event list (users)
\* The statuses of an event, and the texts of message.value.
EventStatuses == {"upcoming", "ongoing", "completed", "cancelled"}
JoinedEvent   == "Successfully joined the event!"
AlreadyJoined == "You have already joined this event"
LeftEvent     == "Successfully left the event"
CannotLeave   == "Cannot leave an event that has already started or ended"

notEvents == << store, session, now, earning, management, participants, scanSession, camera >>

\* The users with a participant row.
Joined == {joined[i] : i \in 1..Len(joined)}

\* What fetchEvents of user u reads from rows e and from participant rows j:
\* the event with its participants, and the user's own row with its event.
EventsFetched(e, j) ==
    [status |-> e.status, event_date |-> e.event_date, participants |-> j]
MyEventsFetched(u, e, j) ==
    IF \E i \in 1..Len(j) : j[i] = u
    THEN Some([status |-> e.status, event_date |-> e.event_date])
    ELSE Null

fetchEvents(u) ==
    /\ events' = [events EXCEPT ![u] = EventsFetched(eventRow, joined)]
    /\ myEvents' = [myEvents EXCEPT ![u] = MyEventsFetched(u, eventRow, joined)]
    /\ UNCHANGED << eventRow, joined, eventMessage, notEvents >>

isJoined(u)       == myEvents[u] # Null
isEventFull(u)    == IF eventRow.max_participants = Null THEN FALSE
                     ELSE Len(events[u].participants) >= Val(eventRow.max_participants)
isPastEvent(date) == date < now

\* canJoinEvent on the event as user u's list holds it (max_participants
\* is not edited here, the list holds the stored one).
canJoinEvent(u) ==
    /\ events[u].status \notin {"cancelled", "completed"}
    /\ ~isPastEvent(events[u].event_date)
    /\ ~isEventFull(u)
    /\ ~isJoined(u)
    /\ events[u].status \in {"upcoming", "ongoing"}

\* joinEvent, from the Join button (shown when canJoinEvent): the row is
\* inserted; the table refuses a second row of the user for the event
\* (error 23505); after the insert the lists are fetched again.
joinEvent(u) ==
    /\ canJoinEvent(u)
    /\ IF u \in Joined
       THEN /\ eventMessage' = [eventMessage EXCEPT ![u] = AlreadyJoined]
            /\ UNCHANGED << eventRow, joined, events, myEvents, notEvents >>
       ELSE /\ joined' = Append(joined, u)
            /\ eventMessage' = [eventMessage EXCEPT ![u] = JoinedEvent]
            /\ events' = [events EXCEPT ![u] = EventsFetched(eventRow, joined')]
            /\ myEvents' = [myEvents EXCEPT ![u] = MyEventsFetched(u, eventRow, joined')]
            /\ UNCHANGED << eventRow, notEvents >>

\* leaveEvent(eventId, eventDate, eventStatus), called from the user's own
\* row as listed and confirmed: refused when the date passed or the status
\* listed is completed or cancelled; else the user's row is deleted and the
\* lists are fetched again.
leaveEvent(u) ==
    /\ isJoined(u)
    /\ LET eventDate   == Val(myEvents[u]).event_date
           eventStatus == Val(myEvents[u]).status
           left        == SelectSeq(joined, LAMBDA v : v # u) IN
       IF isPastEvent(eventDate) \/ eventStatus = "completed" \/ eventStatus = "cancelled"
       THEN /\ eventMessage' = [eventMessage EXCEPT ![u] = CannotLeave]
            /\ UNCHANGED << eventRow, joined, events, myEvents, notEvents >>
       ELSE /\ joined' = left
            /\ eventMessage' = [eventMessage EXCEPT ![u] = LeftEvent]
            /\ events' = [events EXCEPT ![u] = EventsFetched(eventRow, left)]
            /\ myEvents' = [myEvents EXCEPT ![u] = MyEventsFetched(u, eventRow, left)]
            /\ UNCHANGED << eventRow, notEvents >>

\* saveEvent of the admin's event form, the status field changed.
saveEvent(status) ==
    /\ eventRow' = [eventRow EXCEPT !.status = status]
    /\ UNCHANGED << joined, events, myEvents, eventMessage, notEvents >>

\* ------------------------------------------- the reward form (the modal)
\* The texts of message.value the form can show.
NameRequired  == "Name is required"
CostRequired  == "Points cost must be greater than 0"
RewardCreated == "Reward created successfully!"
RewardUpdated == "Reward updated successfully!"

\* What can be typed into the name (nothing, blanks, a name) and into the
\* stock field; String.trim() of a name.
Names       == {"", " ", "n"}
TypedStocks == {Null} \cup {Some(n) : n \in -1..MaxStock}
Trim(name)  == IF name = " " THEN "" ELSE name

\* The frame of the actions of the rewards management page.
notManagement == << store, session, now, earning, participants, scanSession, eventList, camera >>

\* openCreateModal, from the page (the open modal covers its buttons).
openCreateModal ==
    /\ ~modal.showModal
    /\ modal' = [showModal |-> TRUE, isEditing |-> FALSE, formData |-> EmptyForm]
    /\ adminMessage' = ""
    /\ UNCHANGED notManagement

\* openEditModal(reward) on a listed reward: the form is a copy of the row.
\* The list is fetched again after every save and delete; the row is taken
\* here as the store holds it when the modal opens.
openEditModal(r) ==
    /\ ~modal.showModal
    /\ rewards[r].row = "present"
    /\ modal' = [showModal |-> TRUE, isEditing |-> TRUE,
                 formData |-> [id |-> r, name |-> "n",
                               points_cost |-> rewards[r].points_cost,
                               stock_quantity |-> rewards[r].stock_quantity,
                               is_active |-> rewards[r].is_active]]
    /\ adminMessage' = ""
    /\ UNCHANGED notManagement

\* closeModal, by Cancel, by the cross, or 1.5 s after a save.
closeModal ==
    /\ modal.showModal
    /\ modal' = [modal EXCEPT !.showModal = FALSE, !.isEditing = FALSE]
    /\ UNCHANGED << adminMessage, notManagement >>

\* The admin types into a field of the open form (v-model).
NameInput(name) ==
    /\ modal.showModal
    /\ modal' = [modal EXCEPT !.formData.name = name]
    /\ UNCHANGED << adminMessage, notManagement >>

PointsCostInput(v) ==
    /\ modal.showModal
    /\ modal' = [modal EXCEPT !.formData.points_cost = v]
    /\ UNCHANGED << adminMessage, notManagement >>

StockInput(v) ==
    /\ modal.showModal
    /\ modal' = [modal EXCEPT !.formData.stock_quantity = v]
    /\ UNCHANGED << adminMessage, notManagement >>

ActiveInput ==
    /\ modal.showModal
    /\ modal' = [modal EXCEPT !.formData.is_active = ~@]
    /\ UNCHANGED << adminMessage, notManagement >>

\* The browser's check of the form before it raises submit: the name and
\* the cost are required, min="1" on the cost, min="0" on the stock.
BrowserValid(form) ==
    /\ form.name # ""
    /\ form.points_cost >= 1
    /\ IF form.stock_quantity = Null THEN TRUE ELSE Val(form.stock_quantity) >= 0

\* The form as saveReward reads it.
Submitted(form) ==
    [blank |-> Trim(form.name) = "", points_cost |-> form.points_cost,
     stock_quantity |-> form.stock_quantity, is_active |-> form.is_active]

\* The submit button of the form: <form @submit.prevent="saveReward">.  The
\* modal stays open until closeModal.
submitRewardForm ==
    /\ modal.showModal
    /\ BrowserValid(modal.formData)
    /\ saveReward(IF modal.isEditing THEN Some(modal.formData.id) ELSE Null,
                  Submitted(modal.formData))
    /\ adminMessage' =
          IF Trim(modal.formData.name) = "" THEN NameRequired
          ELSE IF modal.formData.points_cost <= 0 THEN CostRequired
          ELSE IF modal.isEditing THEN RewardUpdated ELSE RewardCreated
    /\ modal' = modal

\* ------------------------------------------------------------------- Next
\* Two sessions of one user in the shop, and the admin managing rewards.
Next ==
    \/ \E s \in {"s1", "s2"} : loadData(s)
    \/ \E s \in {"s1", "s2"} : PageReload(s)
    \/ \E s \in {"s1", "s2"}, r \in RewardIds : redeemReward(s, r)
    \/ \E s \in {"s1", "s2"} : RedeemReturn(s)
    \/ \E e \in {Null} \cup {Some(r) : r \in RewardIds}, f \in Forms :
          saveReward(e, f) /\ UNCHANGED management
    \/ \E r \in RewardIds : deleteReward(r)

Spec == Init /\ [][Next]_vars

\* Three sessions of two users in the shop, on a catalog nobody edits.
NextRace ==
    \/ \E s \in Sessions : PageReload(s)
    \/ \E s \in Sessions, r \in RewardIds : redeemReward(s, r)
    \/ \E s \in Sessions : RedeemReturn(s)

SpecRace == InitRace /\ [][NextRace]_vars

\* One session redeeming, and the admin working the redemptions table.
NextStatus ==
    \/ PageReload("s1")
    \/ \E r \in RewardIds : redeemReward("s1", r)
    \/ RedeemReturn("s1")
    \/ \E i \in 1..Len(redemptions), st \in StatusOptions : updateRedemptionStatus(i, st)
    \/ Tick

SpecStatus == InitStatus /\ [][NextStatus]_vars

\* One session in the shop while the same user scans a QR location and a
\* ranger verifies the user's attendance at an event.
NextEarn ==
    \/ PageReload("s1")
    \/ \E r \in RewardIds : redeemReward("s1", r)
    \/ RedeemReturn("s1")
    \/ scanQRCode("u1")
    \/ \E q \in QRs : submitEcoAction("u1", q)
    \/ verifyAttendance("u1")
    \/ awardPoints

SpecEarn == InitStatus /\ [][NextEarn]_vars

\* The same, and the admin editing the user while the user edits the
\* profile.
NextPoints ==
    \/ NextEarn
    \/ handleEditUser("u1")
    \/ \E v \in 0..MaxPoints : PointsInput(v)
    \/ handleUpdateUser
    \/ \E blank \in BOOLEAN : saveProfile("s1", blank)

SpecPoints == InitStatus /\ [][NextPoints]_vars

\* The admin at the reward form, creating a reward and editing it.
NextAdmin ==
    \/ openCreateModal
    \/ \E r \in RewardIds : openEditModal(r)
    \/ closeModal
    \/ \E name \in Names : NameInput(name)
    \/ \E v \in 0..MaxCost : PointsCostInput(v)
    \/ \E v \in TypedStocks : StockInput(v)
    \/ submitRewardForm

SpecAdmin == Init /\ [][NextAdmin]_vars

\* One session redeeming while the admin edits a reward without touching
\* the stock field of the form.
NextEdit ==
    \/ PageReload("s1")
    \/ \E r \in RewardIds : redeemReward("s1", r)
    \/ RedeemReturn("s1")
    \/ \E r \in RewardIds : openEditModal(r)
    \/ ActiveInput
    \/ submitRewardForm
    \/ closeModal

SpecEdit == InitStatus /\ [][NextEdit]_vars

\* A ranger verifying attendance while the admin works the event's
\* participants page.
NextAttend ==
    \/ \E u \in Users : points[u] < MaxPoints + MaxAwards * PointsReward /\ verifyAttendance(u)
    \/ awardPoints
    \/ awardPointsFails
    \/ fetchEventParticipants
    \/ \E u \in Users : toggleAttendance(u)

SpecAttend == InitStatus /\ [][NextAttend]_vars

\* The user scanning one QR location on two devices.
NextScan ==
    \/ \E t \in Devices : fetchUserProfile(t)
    \/ \E t \in Devices, q \in QRs, photo \in BOOLEAN :
          Len(eco_action_submissions) < MaxSubmissions /\ checkSubmission(t, q, photo)
    \/ \E t \in Devices, uploaded \in BOOLEAN : uploadActionPhoto(t, uploaded)
    \/ \E t \in Devices, q \in QRs : insertSubmission(t, q)
    \/ \E t \in Devices : updateUserPoints(t)

SpecScan == InitStatus /\ [][NextScan]_vars

\* Two users at the list of an event with one place, the admin editing the
\* event, and the clock.
NextEvents ==
    \/ \E u \in Users : fetchEvents(u)
    \/ \E u \in Users : joinEvent(u)
    \/ \E u \in Users : leaveEvent(u)
    \/ \E status \in EventStatuses : saveEvent(status)
    \/ Tick

SpecEvents == InitStatus /\ [][NextEvents]_vars

\* The tourist at the camera scanner.
NextCamera ==
    \/ startCamera
    \/ \E started \in BOOLEAN : createScanner(started)
    \/ stopCamera
    \/ \E k \in 1..(MaxScanners + 1) : onDecode(k)
    \/ \E found \in BOOLEAN : decodeReturns(found)
    \/ manualEntry
    \/ \E found \in BOOLEAN : manualReturns(found)

SpecCamera == InitStatus /\ [][NextCamera]_vars

\* The vouchers page over vouchers of every status, as time passes and the
\* admin writes statuses.
NextVouchers ==
    \/ \E i \in 1..Len(redemptions), st \in StatusOptions : updateRedemptionStatus(i, st)
    \/ Tick

SpecVouchers == InitVouchers /\ [][NextVouchers]_vars

\* ============================================================== the claims
\* Steps of a redemption attempt, read off two successive states.
\* The remote call of session s returns in this step.
RpcReturns(s) == pc[s] = "rpc" /\ pc'[s] # "rpc"
\* An attempt of session s ends in this step with an outcome shown, whether
\* redeemReward itself refused it or the remote call returned.
Finishes(s) == message'[s] # message[s] /\ message'[s] # ""

\* The redemptions of reward r, and what user u has spent.
RedemptionsOf(r) == {i \in 1..Len(redemptions) : redemptions[i].reward_id = r}
RECURSIVE SpentUpTo(_, _)
SpentUpTo(u, n) ==
    IF n = 0 THEN 0
    ELSE SpentUpTo(u, n - 1)
         + (IF redemptions[n].user_id = u THEN redemptions[n].points_spent ELSE 0)
Spent(u) == SpentUpTo(u, Len(redemptions))

\* The stock of a row, one lower when it is tracked.
OneLess(stock) == IF stock = Null THEN Null ELSE Some(Val(stock) - 1)

\* C1: of the concurrent redemptions of a reward stocked with N = MaxStock
\* pieces, at most N succeed: the stock is always N minus the redemptions
\* issued and never negative, a request fails with OutOfStock exactly
\* because N have succeeded, and a request for it by a user who can afford
\* it fails in no other way.
C1_NoOverRedemption ==
    LET sold == Cardinality(RedemptionsOf("r1")) IN
    /\ rewards["r1"].stock_quantity = Some(MaxStock - sold)
    /\ MaxStock - sold >= 0
    /\ Cardinality({s \in Sessions : target[s] = "r1" /\ message[s] = Success}) <= MaxStock
    /\ \A s \in Sessions :
         target[s] = "r1" =>
           /\ message[s] = OutOfStock => sold = MaxStock
           /\ message[s] = InsufficientBalance =>
                points[UserOf(s)] < rewards["r1"].points_cost
           /\ message[s] # NotFound

\* Two concurrent requests for r1 succeeded and the third found it sold out.
C1_Witness ==
    /\ target = [s \in Sessions |-> "r1"]
    /\ message["s1"] = Success /\ message["s3"] = Success
    /\ message["s2"] = OutOfStock
    /\ rewards["r1"].stock_quantity = Some(0)

\* C2: a user's balance is never negative, and what the user's redemptions
\* have spent is exactly what the balance has lost, so that of concurrent
\* redemptions only a subset the balance covers succeeds; one that fails
\* with InsufficientBalance is one the balance does not cover.
C2_BalanceNeverNegative ==
    /\ \A u \in Users : points[u] >= 0 /\ points[u] + Spent(u) = MaxPoints
    /\ \A s \in Sessions :
         message[s] = InsufficientBalance =>
           points[UserOf(s)] < rewards[target[s]].points_cost

\* Two sessions of u1 asked for r2, each covered by the balance its page
\* showed: one succeeded, the other failed with InsufficientBalance.
C2_Witness ==
    /\ target["s1"] = "r2" /\ target["s2"] = "r2"
    /\ message["s1"] = Success
    /\ message["s2"] = InsufficientBalance
    /\ userProfile["s2"] >= rewards["r2"].points_cost
    /\ points["u1"] = MaxPoints - rewards["r2"].points_cost

\* C3: a redemption is all or nothing.  A remote call that returns a
\* success has inserted one redemption, lowered the user's points and
\* lowered the stock when tracked; one that returns anything else has left
\* the store as it was; no other step of a shop session touches the store,
\* and points are never lowered, nor a redemption inserted, by anything but
\* a successful call.
C3_AllOrNothing ==
    [][ /\ \A s \in Sessions :
             RpcReturns(s) =>
               IF message'[s] = Success
               THEN /\ Len(redemptions') = Len(redemptions) + 1
                    /\ points'[UserOf(s)] < points[UserOf(s)]
                    /\ \/ rewards[target[s]].stock_quantity = Null
                       \/ rewards'[target[s]].stock_quantity
                            # rewards[target[s]].stock_quantity
               ELSE UNCHANGED store
        /\ (session' # session /\ \A s \in Sessions : ~RpcReturns(s)) => UNCHANGED store
        /\ (points' # points \/ Len(redemptions') # Len(redemptions)) =>
             \E s \in Sessions : RpcReturns(s) /\ message'[s] = Success
      ]_vars

\* A redemption failed after another had succeeded, and the books balance.
C3_Witness ==
    \E s \in Sessions :
      /\ message[s] \in {NotFound, InsufficientBalance, OutOfStock, StorageUnavailable}
      /\ Len(redemptions) = 1
      /\ points[UserOf(s)] = MaxPoints - redemptions[1].points_spent

\* C4: the stock of every reward is null or a number that is not negative.
C4_StockNullOrNonNegative ==
    \A r \in RewardIds :
      rewards[r].stock_quantity = Null \/ Val(rewards[r].stock_quantity) >= 0

\* The admin stocked a reward and redemptions have brought it to 0.
C4_Witness ==
    /\ rewards["r1"].row = "present"
    /\ rewards["r1"].stock_quantity = Some(0)
    /\ Len(redemptions) = MaxStock

\* C5: a redemption's status only moves pending -> claimed -> used, or from
\* pending or claimed to expired or cancelled.
AllowedTransitions ==
    { <<"pending", "claimed">>, <<"claimed", "used">>,
      <<"pending", "expired">>, <<"claimed", "expired">>,
      <<"pending", "cancelled">>, <<"claimed", "cancelled">> }

C5_StatusMonotonic ==
    [][ \A i \in 1..Len(redemptions) :
          \/ redemptions'[i].status = redemptions[i].status
          \/ << redemptions[i].status, redemptions'[i].status >> \in AllowedTransitions
      ]_vars

\* C6: a status change that is not an allowed transition is refused and
\* leaves the redemption (status, claimed_by, claimed_at) as it was: a
\* redemption's row changes only by an allowed transition.
C6_InvalidTransitionRefused ==
    [][ \A i \in 1..Len(redemptions) :
          redemptions'[i] # redemptions[i] =>
            << redemptions[i].status, redemptions'[i].status >> \in AllowedTransitions
      ]_vars

\* C7: a successful redemption was of an active reward in stock that the
\* balance covered, and leaves the balance at exactly P - C, the stock at
\* exactly one less when tracked, and every other balance and reward alone.
C7_ExactDeduction ==
    [][ \A s \in Sessions :
          (RpcReturns(s) /\ message'[s] = Success) =>
            LET u == UserOf(s)
                r == target[s]
            IN  /\ rewards[r].row = "present" /\ rewards[r].is_active
                /\ rewards[r].points_cost <= points[u]
                /\ rewards[r].stock_quantity # Null => Val(rewards[r].stock_quantity) > 0
                /\ points' = [points EXCEPT ![u] = points[u] - rewards[r].points_cost]
                /\ rewards' = [rewards EXCEPT
                                 ![r].stock_quantity = OneLess(rewards[r].stock_quantity)]
      ]_vars

\* The one redemption so far took its cost off the balance and one piece
\* off the tracked stock.
C7_Witness ==
    \E s \in Sessions :
      /\ message[s] = Success
      /\ Len(redemptions) = 1
      /\ redemptions[1].points_spent = rewards[target[s]].points_cost
      /\ points[UserOf(s)] = MaxPoints - rewards[target[s]].points_cost
      /\ rewards[target[s]].stock_quantity = Some(MaxStock - 1)

\* C8 as stated, for every reward in the store: an attempt for a reward
\* whose cost exceeds the user's balance ends (unless the store cannot be
\* reached) with InsufficientBalance and leaves the store as it was.
C8_EveryReward ==
    [][ \A s \in Sessions :
          ( /\ Finishes(s)
            /\ message'[s] # StorageUnavailable
            /\ rewards[target'[s]].row = "present"
            /\ rewards[target'[s]].points_cost > points[UserOf(s)] )
          => (message'[s] = InsufficientBalance /\ UNCHANGED store)
      ]_vars

\* C8, amended to rewards that are active: an attempt for an active reward
\* whose cost exceeds the user's balance ends (unless the store cannot be
\* reached) with InsufficientBalance and leaves the store as it was,
\* however often it is repeated.
C8_InsufficientBalance ==
    [][ \A s \in Sessions :
          ( /\ Finishes(s)
            /\ message'[s] # StorageUnavailable
            /\ rewards[target'[s]].row = "present"
            /\ rewards[target'[s]].is_active
            /\ rewards[target'[s]].points_cost > points[UserOf(s)] )
          => (message'[s] = InsufficientBalance /\ UNCHANGED store)
      ]_vars

\* The page still showed a balance that covered the reward; the store's
\* balance did not, and the attempt failed with InsufficientBalance.
C8_Witness ==
    \E s \in Sessions :
      /\ message[s] = InsufficientBalance
      /\ rewards[target[s]].row = "present" /\ rewards[target[s]].is_active
      /\ rewards[target[s]].points_cost > points[UserOf(s)]
      /\ userProfile[s] >= shopRewards[s][target[s]].points_cost

\* C9: the outcome of an attempt is that of the first precondition that
\* fails, in the order exists-and-active, balance, stock: NotFound for a
\* missing or inactive reward whatever the balance, InsufficientBalance
\* for an unaffordable reward whatever the stock, OutOfStock only for an
\* affordable one.
C9_PreconditionOrder ==
    [][ \A s \in Sessions :
          (Finishes(s) /\ message'[s] # StorageUnavailable) =>
            LET u  == UserOf(s)
                rw == rewards[target'[s]]
                live == rw.row = "present" /\ rw.is_active
            IN  /\ ~live => message'[s] = NotFound
                /\ (live /\ points[u] < rw.points_cost) => message'[s] = InsufficientBalance
                /\ ( /\ live
                     /\ points[u] >= rw.points_cost
                     /\ rw.stock_quantity # Null
                     /\ Val(rw.stock_quantity) <= 0 ) => message'[s] = OutOfStock
                /\ message'[s] = OutOfStock => points[u] >= rw.points_cost
      ]_vars

\* An inactive reward the user could not have paid either: NotFound.
C9_Witness ==
    \E s \in Sessions :
      /\ message[s] = NotFound
      /\ rewards[target[s]].row = "present" /\ ~rewards[target[s]].is_active
      /\ points[UserOf(s)] < rewards[target[s]].points_cost

\* C10: a redemption is only ever inserted for a reward that is in the
\* store and active at that moment; an attempt for a reward that is gone
\* or inactive by then, though the shop listed it, leaves the store as it
\* was and ends with NotFound.
C10_NoRedemptionOfMissingReward ==
    [][ /\ Len(redemptions') > Len(redemptions) =>
             LET new == redemptions'[Len(redemptions')] IN
             /\ rewards[new.reward_id].row = "present"
             /\ rewards[new.reward_id].is_active
        /\ \A s \in Sessions :
             ( /\ Finishes(s)
               /\ message'[s] # StorageUnavailable
               /\ ~(rewards[target'[s]].row = "present" /\ rewards[target'[s]].is_active) )
             => (message'[s] = NotFound /\ UNCHANGED store)
      ]_vars

\* The shop listed the reward, the admin deleted it, the attempt found
\* nothing.
C10_Witness ==
    \E s \in Sessions :
      /\ message[s] = NotFound
      /\ shopRewards[s][target[s]].listed
      /\ rewards[target[s]].row = "deleted"
      /\ redemptions = << >>

C12_NewRedemptionRecord ==
    [][ Len(redemptions') # Len(redemptions) =>
          LET new == redemptions'[Len(redemptions')] IN
          /\ Len(redemptions') = Len(redemptions) + 1
          /\ \E s \in Sessions :
               /\ RpcReturns(s) /\ message'[s] = Success
               /\ new.user_id = UserOf(s) /\ new.reward_id = target[s]
          /\ new.status = "pending"
          /\ new.points_spent = rewards[new.reward_id].points_cost
          /\ new.claimed_by = NullId /\ new.claimed_at = Null
          /\ new.created_at = now
          /\ new.expires_at = new.created_at + ExpiryOffset
          /\ new.expires_at > new.created_at
      ]_vars

\* The admin changed the price after the page listed the reward; the
\* redemption recorded the store's price, not the page's.
C12_Witness ==
    \E s \in Sessions :
      /\ message[s] = Success /\ pc[s] = "reloading"
      /\ Len(redemptions) = 1
      /\ redemptions[1].status = "pending"
      /\ redemptions[1].points_spent # shopRewards[s][target[s]].points_cost

\* C13: the points_spent of a redemption, stored and displayed, never
\* changes once the redemption exists, whatever the admin does to the
\* reward; and no redemption disappears.
C13_PointsSpentImmutable ==
    [][ /\ Len(redemptions') >= Len(redemptions)
        /\ \A i \in 1..Len(redemptions) :
             /\ redemptions'[i].points_spent = redemptions[i].points_spent
             /\ PointsShown(i)' = PointsShown(i)
      ]_vars

\* A redemption whose reward has since been repriced still shows what was
\* paid.
C13_Witness ==
    /\ Len(redemptions) >= 1
    /\ rewards[redemptions[1].reward_id].row = "present"
    /\ rewards[redemptions[1].reward_id].points_cost = MaxCost
    /\ redemptions[1].points_spent = 1
    /\ PointsShown(1) = 1

\* C14: the expiry predicate is true exactly when now is strictly later
\* than expires_at, whatever the stored status.
C14_ExpiredIffPast ==
    \A i \in 1..Len(redemptions) :
      /\ isExpired(redemptions[i].expires_at) <=> now > redemptions[i].expires_at
      /\ redemptions[i].expires_at >= now => ~isExpired(redemptions[i].expires_at)

\* A claimed voucher past its expiry is expired, and another voucher whose
\* expiry is this very instant is not.
C14_Witness ==
    /\ Len(redemptions) = 2
    /\ redemptions[1].status = "claimed"
    /\ redemptions[1].expires_at < now
    /\ isExpired(redemptions[1].expires_at)
    /\ redemptions[2].expires_at = now
    /\ ~isExpired(redemptions[2].expires_at)

\* C15: every read path presents a voucher whose expiry has passed as
\* expired: it is not in the user's active list, its history badge says
\* expired, and the admin's table shows expired and does not offer to
\* claim it.
C15_ExpiredShownEverywhere ==
    \A i \in 1..Len(redemptions) :
      now > redemptions[i].expires_at =>
        /\ i \notin activeVouchers(redemptions[i].user_id)
        /\ i \in usedExpiredVouchers(redemptions[i].user_id)
        /\ HistoryBadge(i) = "expired"
        /\ AdminStatusShown(i) = "expired"
        /\ "claimed" \notin AdminStatusOffered(i)

\* C16: a redemption written to claimed carries the acting user and the
\* current time; written to any other status it keeps the claimed_by and
\* claimed_at it had.
C16_ClaimMetadata ==
    [][ \A i \in 1..Len(redemptions) :
          redemptions'[i] # redemptions[i] =>
            IF redemptions'[i].status = "claimed"
            THEN /\ redemptions'[i].claimed_by = Admin
                 /\ redemptions'[i].claimed_at = Some(now)
            ELSE /\ redemptions'[i].claimed_by = redemptions[i].claimed_by
                 /\ redemptions'[i].claimed_at = redemptions[i].claimed_at
      ]_vars

\* A voucher claimed earlier and used now still carries the claim's actor
\* and time.
C16_Witness ==
    \E i \in 1..Len(redemptions) :
      /\ redemptions[i].status = "used"
      /\ redemptions[i].claimed_by = Admin
      /\ redemptions[i].claimed_at # Null
      /\ Val(redemptions[i].claimed_at) < now

\* C17: a status change changes that one redemption only: no balance, no
\* reward and no other redemption changes with it, and it changes nothing
\* of the redemption but its status and claim metadata.
C17_StatusChangeFrame ==
    [][ (\E i \in 1..Len(redemptions) : redemptions'[i] # redemptions[i]) =>
          /\ points' = points
          /\ rewards' = rewards
          /\ Len(redemptions') = Len(redemptions)
          /\ Cardinality({i \in 1..Len(redemptions) : redemptions'[i] # redemptions[i]}) = 1
          /\ \A i \in 1..Len(redemptions) :
               /\ redemptions'[i].points_spent = redemptions[i].points_spent
               /\ redemptions'[i].user_id = redemptions[i].user_id
               /\ redemptions'[i].reward_id = redemptions[i].reward_id
               /\ redemptions'[i].voucher_code = redemptions[i].voucher_code
               /\ redemptions'[i].expires_at = redemptions[i].expires_at
      ]_vars

\* A cancelled voucher: the points stay spent and the piece stays taken.
C17_Witness ==
    /\ Len(redemptions) = 2
    /\ redemptions[1].status = "cancelled"
    /\ redemptions[2].status = "pending"
    /\ points["u1"] = MaxPoints - Spent("u1")
    /\ Spent("u1") = 2
    /\ rewards["r1"].stock_quantity = Some(0)

\* C19: the store's state alone decides a redemption attempt.  A listed
\* reward the store would let the user redeem can be redeemed from the
\* page, however stale the page's balance and stock are, and the outcome
\* shown for an attempt is the one the store's state gives.
C19_StoreDecides ==
    [][ /\ \A s \in Sessions, r \in RewardIds :
             ( /\ pc[s] = "idle"
               /\ shopRewards[s][r].listed
               /\ RedeemOutcome(UserOf(s), r) = Success )
             => RedeemButtonEnabled(s, r)
        /\ \A s \in Sessions :
             (Finishes(s) /\ message'[s] # StorageUnavailable)
             => message'[s] = RedeemOutcome(UserOf(s), target'[s])
      ]_vars

\* C18: a balance changes only by a redemption of the user, which lowers
\* it, or by an eco-action submission or attendance verification of the
\* user, which raise it.
C18_PointsFrame ==
    [][ \A u \in Users :
          points'[u] # points[u] =>
            \/ /\ points'[u] < points[u]
               /\ Len(redemptions') = Len(redemptions) + 1
               /\ redemptions'[Len(redemptions')].user_id = u
            \/ /\ points'[u] > points[u]
               /\ \/ \E q \in QRs : /\ Submissions(q, u)' # {}
                                    /\ Submissions(q, u) = {}
                  \/ /\ event_participants'[u].points_awarded
                     /\ ~event_participants[u].points_awarded
      ]_vars

\* What user u has earned: 10 per eco-action row, and the event's
\* points_reward once awarded.
Earned(u) ==
    EcoActionPoints * Cardinality({i \in 1..Len(eco_action_submissions) :
                                     eco_action_submissions[i][2] = u})
    + (IF event_participants[u].points_awarded THEN PointsReward ELSE 0)

\* C20: no update of a balance is lost: whatever the interleaving of
\* redemptions, eco-action submissions and attendance verifications, the
\* balance is the initial one, less what was spent, plus what was earned.
C20_NoLostUpdate ==
    \A u \in Users : points[u] = MaxPoints - Spent(u) + Earned(u)

C22_ZeroStockStays ==
    [][\A r \in RewardIds :
          (/\ rewards[r].row = "present" /\ rewards'[r].row = "present"
           /\ rewards[r].stock_quantity = Some(0))
          => rewards'[r].stock_quantity # Null
      ]_vars

\* C23: the stock taken by redemptions is never given back by an edit of
\* the reward in which the admin leaves the stock field alone: no step
\* raises a limited stock.
C23_DecrementsSurviveEdit ==
    [][\A r \in RewardIds :
          (/\ rewards[r].row = "present" /\ rewards'[r].row = "present"
           /\ rewards[r].stock_quantity # Null /\ rewards'[r].stock_quantity # Null)
          => Val(rewards'[r].stock_quantity) <= Val(rewards[r].stock_quantity)
      ]_vars

\* C24: the points_reward of the event is added to a participant's balance
\* at most once, whatever the interleaving of verifications and of the
\* admin's attendance toggles.
C24_AwardedAtMostOnce ==
    \A u \in Users : points[u] <= MaxPoints + PointsReward

\* C25: a participant marked points_awarded belongs to a user whose balance
\* received the points_reward; a verification whose points update fails
\* leaves no participant marked.
C25_AwardedMeansPaid ==
    \A u \in Users : event_participants[u].points_awarded => points[u] >= MaxPoints + PointsReward

\* C26: the user earns the eco-action points at most once per QR location,
\* also when submitting from two devices at once: there is at most one
\* submission of the user for a location, and the balance has grown by at
\* most 10 points for it.
C26_OncePerLocation ==
    /\ \A q \in QRs : Cardinality(Submissions(q, "u1")) <= 1
    /\ points["u1"] <= MaxPoints + EcoActionPoints * Cardinality(QRs)

\* C27: the participant rows of an event with a max_participants limit
\* never outnumber the limit, also when users whose lists were loaded
\* before the last place was taken join at once; and a user has at most
\* one participant row for the event.
C27_WithinLimit ==
    /\ eventRow.max_participants # Null => Len(joined) <= Val(eventRow.max_participants)
    /\ \A i, j \in 1..Len(joined) : joined[i] = joined[j] => i = j

\* C28: a participant row is only deleted for an event that is not past,
\* not completed and not cancelled, and only the row of the user who
\* leaves; a leaveEvent that answers 'Cannot leave ...' deletes nothing.
C28_LeaveOnlyOpenEvents ==
    [][\A u \in Users :
          /\ (u \in Joined /\ u \notin Joined')
                => /\ ~isPastEvent(eventRow.event_date)
                   /\ eventRow.status \notin {"completed", "cancelled"}
                   /\ eventMessage'[u] = LeftEvent
                   /\ \A v \in Users \ {u} : v \in Joined => v \in Joined'
          /\ (eventMessage'[u] = CannotLeave /\ eventMessage[u] # CannotLeave)
                => joined' = joined
      ]_vars

\* C29: the camera scanner processes at most one detected code at a time,
\* and a live QrScanner exists only while the camera modal is open; when
\* the lookup of a detected code ends, the camera is stopped if the code
\* was found, and else processingQR is false again and scanning true.
C29_OneScanOneScanner ==
    /\ lookups.detected <= 1
    /\ scanners # {} => showCameraModal

====
